---- MODULE Spec2Model ----
(***************************************************************************)
(* A model of the SpiceMySponza renderer (class MyView and its helpers in  *)
(* namespace util), revision MyView/MyView.cpp lines 1-742.                *)
(*                                                                         *)
(* Matrices are stood for by positive integers and the matrix product by   *)
(* the integer product; a vertex or an index of a mesh is stood for by the *)
(* pair <<mesh id, position in the mesh>>.  Buffers are kept with their    *)
(* size in bytes and their contents in units of one element.               *)
(***************************************************************************)
EXTENDS Integers, Sequences, FiniteSets, TLC

(***************************************************************************)
(* Bounds of the model.                                                    *)
(***************************************************************************)
MaxMeshes    == 2   \* meshes the geometry builder returns
MaxVertices  == 2   \* vertices of one mesh
MaxElements  == 2   \* indices of one mesh
MaxInstances == 2   \* instances of one scene
MaxExtraLights == 2 \* lights of a scene beyond MAX_LIGHTS
MaxOutside   == 1   \* how far an argument of a setter lies beyond a limit
MaxConeSteps == 4   \* cone angles of a spot light, in steps of 30 degrees

(***************************************************************************)
(* Sizes fixed by the program's types.                                     *)
(***************************************************************************)
SizeofVertex     == 32    \* position 12 + normal 12 + texture point 8
SizeofElement    == 4     \* sizeof (unsigned int)
SizeofMat4       == 64    \* sizeof (glm::mat4)
SizeofMaterialID == 4     \* using MaterialID = int
MatricesPerSlot  == 2     \* model and pvm
MaterialColumns  == 2     \* a material takes up two columns of the table
SizeofMaterial   == 32    \* sizeof (MyView::Material): two columns of four floats

VARIABLES
    meshes,             \* SceneModel::GeometryBuilder().getAllMeshes()
    m_scene,            \* the SceneModel::Context the view reads
    lights,             \* getAllLights of the scene
    ambientMaps,        \* getAmbientMap of the materials, by material id
    pngFiles,           \* the image files tygra::imageFromPNG can decode
    shaders,            \* whether the shader files compile and link
    phase,              \* where the window's life cycle stands
    m_program,          \* the program buildProgram created
    m_meshes,           \* MeshId and Mesh pairs recorded by buildMeshData
    m_vertexVBO,        \* the shared vertex buffer
    m_elementVBO,       \* the shared index buffer
    m_uniformUBO,       \* the uniform buffer holding one UniformData
    m_materials,        \* the material table
    m_textureArray,     \* the texture array and the images loaded into it
    m_instancePoolSize, \* the pool capacity computed by allocateExtraBuffers
    m_poolTransforms,   \* the transform pool
    m_poolMaterialIDs,  \* the material-index pool
    m_materialIDs,      \* SceneModel::MaterialId -> offset in the material table
    m_wireframeMode,    \* whether the wireframe light is shown
    m_wireframeType,    \* the light type the user cycles through
    glNames,            \* what the GL names held by the members refer to
    uniformData,        \* a UniformData object under its setters
    moved,              \* the UniformData object that is moved from
    outside,            \* whether a setter wrote outside the light array
    views,              \* two MyView objects, `this` and `move`, by member
    fragment,           \* the inputs of one fragment and one light to the shader
    shaded,             \* what the shader computed for the fragment
    staging,            \* the static vectors of windowViewRender
    handler,            \* the last handler that ran
    gl,                 \* the GL commands issued by the last handler
    outcome             \* how the last handler ended

vars == << meshes, m_scene, lights, ambientMaps, pngFiles, shaders,
           uniformData, moved, outside, views, fragment, shaded, phase,
           m_program, m_meshes, m_vertexVBO, m_elementVBO, m_uniformUBO,
           m_materials, m_textureArray, m_instancePoolSize, m_poolTransforms,
           m_poolMaterialIDs, m_materialIDs, m_wireframeMode,
           m_wireframeType, glNames, staging, handler, gl, outcome >>

(***************************************************************************)
(* The collaborators: geometry and scene.                                  *)
(***************************************************************************)
\* The mesh ids and the looks (a transform with its material) the instances
\* of the scenes are drawn from.
MeshIds == 1 .. 2
Looks   == 1 .. 2

SeqsUpTo(S, n) == UNION { [1 .. k -> S] : k \in 0 .. n }

\* One mesh of the geometry builder: its id and the lengths of its arrays.
MeshShapes == [vertices : 1 .. MaxVertices, elements : 1 .. MaxElements]

MeshLists  == SeqsUpTo(MeshShapes, MaxMeshes)

\* SceneModel::Mesh::getId of the k-th mesh the builder returns.
getId(k) == k

\* The geometry of the demo: mesh k has k vertices and k indices, each
\* capped by the bounds.
Min(a, b) == IF a < b THEN a ELSE b

DemoMeshes(n) ==
    [k \in 1 .. n |-> [vertices |-> Min(k, MaxVertices),
                       elements |-> Min(k, MaxElements)]]

Instances  ==
    { [mesh |-> m, transform |-> t, material |-> t] : m \in MeshIds, t \in Looks }

\* getAllMaterials of a scene: material 2 may be missing from it.
MaterialLists == { << 1 >>, << 2, 1 >> }

\* A scene: its instances (the instance id is the position) and the ids of
\* its materials in getAllMaterials order.
SceneSet == [instances : SeqsUpTo(Instances, MaxInstances),
             materials : MaterialLists]

\* glm::perspective (...) * glm::lookAt (...) of the scene's camera, which
\* is not the identity.
ProjectionView == 2

(***************************************************************************)
(* GL buffer objects.                                                      *)
(***************************************************************************)
NoVertex     == << 0, 0 >>
NoTransform  == [model |-> 0, pvm |-> 0]
NoMaterialID == -1
Garbage      == -2
GarbageTransform == [model |-> Garbage, pvm |-> Garbage]

DeletedBuffer == [size |-> 0, data |-> << >>]

\* util::allocateBuffer: glBufferData with a null pointer; `unit` is the size
\* of one element of the contents, `blank` an element never written.
allocateBuffer(size, unit, blank) ==
    [size |-> size, data |-> [j \in 1 .. (size \div unit) |-> blank]]

\* glBufferSubData accepts the write only if it lies inside the data store.
Accepted(buffer, offset, size) == offset + size <= buffer.size

\* glBufferSubData (target, offset, size, data): GL_INVALID_VALUE and no
\* change when the region reaches past the end of the buffer.
glBufferSubData(buffer, offset, size, data, unit) ==
    IF ~Accepted(buffer, offset, size)
    THEN buffer
    ELSE [buffer EXCEPT !.data =
            [j \in 1 .. Len(buffer.data) |->
                IF /\ j > offset \div unit
                   /\ j <= (offset + size) \div unit
                THEN data[j - offset \div unit]
                ELSE buffer.data[j]]]

\* One entry of the command stream: a buffer allocation or a buffer write.
Allocate(target, size) ==
    [op |-> "allocate", target |-> target, mesh |-> 0, offset |-> 0,
     size |-> size, accepted |-> TRUE]

SubData(target, mesh, buffer, offset, size) ==
    [op |-> "subdata", target |-> target, mesh |-> mesh, offset |-> offset,
     size |-> size, accepted |-> Accepted(buffer, offset, size)]

(***************************************************************************)
(* util::calculateVBOSize and util::assembleVertices.                      *)
(***************************************************************************)
RECURSIVE CountVertices(_, _), CountElements(_, _)
CountVertices(ms, k) ==
    IF k > Len(ms) THEN 0 ELSE ms[k].vertices + CountVertices(ms, k + 1)
CountElements(ms, k) ==
    IF k > Len(ms) THEN 0 ELSE ms[k].elements + CountElements(ms, k + 1)

\* A slip: the vertex buffer sized with the size of an index.
calculateVBOSize_WrongSizeof(ms) ==
    [vertexSize  |-> CountVertices(ms, 1) * SizeofElement,
     elementSize |-> CountElements(ms, 1) * SizeofElement]

calculateVBOSize(ms) ==
    [vertexSize  |-> CountVertices(ms, 1) * SizeofVertex,
     elementSize |-> CountElements(ms, 1) * SizeofElement]

\* One Vertex per position of the mesh.
assembleVertices(k, mesh) == [j \in 1 .. mesh.vertices |-> << getId(k), j >>]

getElementArray(k, mesh)  == [j \in 1 .. mesh.elements |-> << getId(k), j >>]

(***************************************************************************)
(* MyView::buildMeshData.                                                  *)
(***************************************************************************)
\* The Mesh record made for the mesh at the two running cursors.
NewMesh(id, vertexIndex, elementOffset, elementCount) ==
    [id |-> id, verticesIndex |-> vertexIndex,
     elementsOffset |-> elementOffset, elementCount |-> elementCount]

\* How the two cursors move past a mesh.
NextVertexIndex(vertexIndex, vertices)     == vertexIndex + Len(vertices)
\* A slip: the byte cursor advanced by the number of indices.
NextElementOffset_InElements(elementOffset, elements) ==
    elementOffset + Len(elements)

NextElementOffset(elementOffset, elements) ==
    elementOffset + Len(elements) * SizeofElement

\* The loop of buildMeshData from mesh k on; st holds the cursors, the
\* records made so far, the two buffers and the commands issued.
RECURSIVE PackMeshes(_, _, _)
PackMeshes(ms, k, st) ==
    IF k > Len(ms) THEN st
    ELSE LET mesh     == ms[k]
             elements == getElementArray(k, mesh)
             vertices == assembleVertices(k, mesh)
             newMesh  == NewMesh(getId(k), st.vertexIndex, st.elementOffset,
                                 Len(elements))
             vOffset  == st.vertexIndex * SizeofVertex
             vSize    == Len(vertices) * SizeofVertex
             eSize    == Len(elements) * SizeofElement
         IN  PackMeshes(ms, k + 1,
               [vertexIndex   |-> NextVertexIndex(st.vertexIndex, vertices),
                elementOffset |-> NextElementOffset(st.elementOffset, elements),
                m_meshes      |-> Append(st.m_meshes, newMesh),
                vertexVBO     |-> glBufferSubData(st.vertexVBO, vOffset, vSize,
                                                  vertices, SizeofVertex),
                elementVBO    |-> glBufferSubData(st.elementVBO,
                                                  st.elementOffset, eSize,
                                                  elements, SizeofElement),
                gl            |-> st.gl \o
                    << SubData("vertex", getId(k), st.vertexVBO, vOffset, vSize),
                       SubData("element", getId(k), st.elementVBO,
                               st.elementOffset, eSize) >>])

buildMeshData(ms) ==
    LET sizes == calculateVBOSize(ms)
    IN  PackMeshes(ms, 1,
          [vertexIndex   |-> 0,
           elementOffset |-> 0,
           m_meshes      |-> << >>,
           vertexVBO     |-> allocateBuffer(sizes.vertexSize, SizeofVertex,
                                            NoVertex),
           elementVBO    |-> allocateBuffer(sizes.elementSize, SizeofElement,
                                            NoVertex),
           gl            |-> << Allocate("vertex", sizes.vertexSize),
                                Allocate("element", sizes.elementSize) >>])

(***************************************************************************)
(* The scene's queries.                                                    *)
(***************************************************************************)
\* SceneModel::Context::getInstancesByMeshId: the ids of the instances of
\* the mesh, in the scene's order.
RECURSIVE InstancesFrom(_, _, _)
InstancesFrom(scene, id, j) ==
    IF j > Len(scene.instances) THEN << >>
    ELSE (IF scene.instances[j].mesh = id THEN << j >> ELSE << >>)
         \o InstancesFrom(scene, id, j + 1)

getInstancesByMeshId(scene, id) == InstancesFrom(scene, id, 1)

getInstanceById(scene, instanceId) == scene.instances[instanceId]

(***************************************************************************)
(* MyView::highestInstanceCount and MyView::allocateExtraBuffers.          *)
(***************************************************************************)
\* A slip: the count of the last mesh instead of the highest.
RECURSIVE HighestFrom_Last(_, _, _, _)
HighestFrom_Last(ms, scene, k, highest) ==
    IF k > Len(ms) THEN highest
    ELSE HighestFrom_Last(ms, scene, k + 1,
                          Len(getInstancesByMeshId(scene, ms[k].id)))

RECURSIVE HighestFrom(_, _, _, _)
HighestFrom(ms, scene, k, highest) ==
    IF k > Len(ms) THEN highest
    ELSE LET current == Len(getInstancesByMeshId(scene, ms[k].id))
         IN  HighestFrom(ms, scene, k + 1,
                         IF current > highest THEN current ELSE highest)

highestInstanceCount(ms, scene) == HighestFrom(ms, scene, 1, 0)

transformSize(poolSize)  == poolSize * SizeofMat4 * MatricesPerSlot
materialIDSize(poolSize) == poolSize * SizeofMaterialID

(***************************************************************************)
(* MyView::buildMaterialData: the id-to-offset map.                        *)
(***************************************************************************)
\* std::unordered_map::emplace keeps the entry of a key already present.
emplace(map, key, value) ==
    IF key \in DOMAIN map THEN map
    ELSE [x \in DOMAIN map \cup {key} |->
            IF x = key THEN value ELSE map[x]]

MaterialOffset(id) == id * MaterialColumns

RECURSIVE MaterialIDsFrom(_, _, _)
MaterialIDsFrom(materials, k, map) ==
    IF k > Len(materials) THEN map
    ELSE MaterialIDsFrom(materials, k + 1,
                         emplace(map, materials[k], MaterialOffset(k - 1)))

buildMaterialData(scene, map) == MaterialIDsFrom(scene.materials, 1, map)

\* A clear that leaves an entry behind.
EmptyMap_Stale == [x \in { 0 } |-> 0]

\* m_materialIDs after clear.
EmptyMap == [x \in {} |-> 0]

\* The material map as the in-class initialiser of m_materialIDs leaves it.
NoMaterialIDs == [x \in {} |-> 0]

\* The image files the materials may name, and the empty name of a material
\* without an ambient map.
Filenames    == { "a.png", "b.png" }
NoAmbientMap == ""

\* What the materials name (material id -> file name) and which files
\* tygra::imageFromPNG can decode.
AmbientMapSet == [Looks -> Filenames \cup { NoAmbientMap }]
PngFileSet    == SUBSET Filenames

\* SceneModel::Material::getDiffuseColour, getSpecularColour, getShininess.
getDiffuseColour(id)  == 10 + id
getSpecularColour(id) == 20 + id
getShininess(id)      == 30 + id

\* util::loadImagesFromScene from the k-th material on: the file name of
\* every material whose image contains data is pushed back.
RECURSIVE LoadImagesFrom(_, _, _, _, _)
LoadImagesFrom(materials, maps, files, k, images) ==
    IF k > Len(materials) THEN images
    ELSE LoadImagesFrom(materials, maps, files, k + 1,
            IF maps[materials[k]] \in files
            THEN Append(images, maps[materials[k]])
            ELSE images)

loadImagesFromScene(materials, maps, files) ==
    LoadImagesFrom(materials, maps, files, 1, << >>)

\* The search of buildMaterialData for a texture among the loaded images:
\* the index (from 0) of the first image of that name, -1 without one.
TextureID(images, texture) ==
    IF texture # NoAmbientMap /\ \E i \in 1 .. Len(images) : images[i] = texture
    THEN (CHOOSE i \in 1 .. Len(images) :
            /\ images[i] = texture
            /\ \A j \in 1 .. i - 1 : images[j] # texture) - 1
    ELSE -1

\* A move assignment that leaves the texture index of the target alone.
MoveMaterial_WithoutTexture(move) ==
    [diffuseColour |-> move.diffuseColour, textureID |-> -1,
     specularColour |-> move.specularColour, shininess |-> move.shininess]

\* MyView::Material::operator= (Material&&): the four members are moved.
MoveMaterial(move) ==
    [diffuseColour |-> move.diffuseColour, textureID |-> move.textureID,
     specularColour |-> move.specularColour, shininess |-> move.shininess]

\* bufferMaterials of buildMaterialData: one buffer-ready material for each
\* material of the scene, in getAllMaterials order.
BufferMaterials(materials, maps, images) ==
    [k \in 1 .. Len(materials) |->
        MoveMaterial([diffuseColour  |-> getDiffuseColour(materials[k]),
                      textureID      |-> TextureID(images, maps[materials[k]]),
                      specularColour |-> getSpecularColour(materials[k]),
                      shininess      |-> getShininess(materials[k])])]

\* util::fillBuffer: glBufferData with the data.
fillBuffer(data, unit) == [size |-> Len(data) * unit, data |-> data]

\* prepareTextureData and loadTexturesIntoArray: the storage has a layer
\* for each loaded image, one layer without images.
TextureArray(images) ==
    [layers |-> IF images = << >> THEN 1 ELSE Len(images),
     images |-> images]

\* The texture array before glTexStorage3D and after glDeleteTextures.
NoTextureArray == [layers |-> 0, images |-> << >>]

(***************************************************************************)
(* MyView::windowViewRender.                                               *)
(***************************************************************************)
\* What an out-of-bounds write to a static vector may do: end the process,
\* land where the upload reads it back, or be lost to the upload.
UBOutcomes == { "crash", "written", "lost" }

\* static std::vector<MaterialID> materialIDs (m_instancePoolSize) and
\* static std::vector<glm::mat4> matrices (m_instancePoolSize * 2) are
\* constructed the first time control passes through their declaration.
StaticVectors(stg, poolSize) ==
    IF stg.init THEN stg
    ELSE [init |-> TRUE, materialIDs |-> poolSize,
          matrices |-> poolSize * MatricesPerSlot]

\* m_materialIDs.at (instance.getMaterialId()) throws std::out_of_range for
\* a key the map does not hold.
Throws(map, materialId) == materialId \notin DOMAIN map

\* The matrices staged for an instance: model and projection * view * model.
StagedTransform(pv, instance) ==
    [model |-> instance.transform, pvm |-> pv * instance.transform]

\* The loop over the instances of one mesh, from the i-th on (i counts from
\* 1, the code from 0).  acc.slots are the staged slots as the upload will
\* read them.
RECURSIVE FillPools(_, _, _, _, _, _, _, _)
FillPools(scene, map, pv, stg, ub, instances, i, acc) ==
    IF i > Len(instances) THEN acc
    ELSE LET instance  == getInstanceById(scene, instances[i])
             offset    == (i - 1) * MatricesPerSlot
             matrixOK  == offset + 1 < stg.matrices
             idOK      == i - 1 < stg.materialIDs
         IN  IF ~matrixOK /\ ub = "crash"
             THEN [acc EXCEPT !.status = "crashed"]
             ELSE IF Throws(map, instance.material)
             THEN [acc EXCEPT !.status = "exception",
                              !.overrun = acc.overrun \/ ~matrixOK]
             ELSE IF ~idOK /\ ub = "crash"
             THEN [acc EXCEPT !.status = "crashed"]
             ELSE FillPools(scene, map, pv, stg, ub, instances, i + 1,
                    [status     |-> acc.status,
                     overrun    |-> acc.overrun \/ ~matrixOK \/ ~idOK,
                     transforms |-> Append(acc.transforms,
                         IF matrixOK \/ ub = "written"
                         THEN StagedTransform(pv, instance)
                         ELSE GarbageTransform),
                     materialIDs |-> Append(acc.materialIDs,
                         IF idOK \/ ub = "written"
                         THEN map[instance.material]
                         ELSE Garbage)])

\* The bytes of each pool that are uploaded for a mesh with `size` instances.
TransformBytes(size)  == SizeofMat4 * MatricesPerSlot * size
MaterialIDBytes(size) == SizeofMaterialID * size

\* glDrawElementsInstancedBaseVertex for a mesh, with the pools as they are
\* when the draw is issued.
Draw(mesh, size, transforms, materialIDs) ==
    [op |-> "draw", mesh |-> mesh.id, count |-> mesh.elementCount,
     indices |-> mesh.elementsOffset, instances |-> size,
     baseVertex |-> mesh.verticesIndex,
     transforms |-> transforms.data, materialIDs |-> materialIDs.data]

\* A variant that issues the draw before the uploads it consumes.
MeshCommands_DrawFirst(fill, transforms, materialIDs, draw) ==
    << fill, draw, transforms, materialIDs >>

\* The commands of one drawn mesh in the order the loop body issues them:
\* the staging loop, the two glBufferSubData calls, the draw.
MeshCommands(fill, transforms, materialIDs, draw) ==
    << fill, transforms, materialIDs, draw >>

\* The loop over m_meshes from the k-th pair on.
RECURSIVE RenderMeshes(_, _, _, _, _, _, _, _)
RenderMeshes(ms, scene, map, pv, stg, ub, k, st) ==
    IF k > Len(ms) THEN st
    ELSE LET mesh      == ms[k]
             instances == getInstancesByMeshId(scene, mesh.id)
             size      == Len(instances)
         IN  IF size = 0
             THEN RenderMeshes(ms, scene, map, pv, stg, ub, k + 1, st)
             ELSE
             LET filled == FillPools(scene, map, pv, stg, ub, instances, 1,
                             [status |-> "ok", overrun |-> FALSE,
                              transforms |-> << >>, materialIDs |-> << >>])
                 fill   == [op |-> "fill", mesh |-> mesh.id,
                            slots |-> Len(filled.transforms),
                            overrun |-> filled.overrun]
             IN  IF filled.status # "ok"
                 THEN [st EXCEPT !.status = filled.status,
                                 !.gl = Append(st.gl, fill)]
                 ELSE
                 LET transforms  == glBufferSubData(st.transforms, 0,
                                        TransformBytes(size),
                                        filled.transforms,
                                        SizeofMat4 * MatricesPerSlot)
                     materialIDs == glBufferSubData(st.materialIDs, 0,
                                        MaterialIDBytes(size),
                                        filled.materialIDs, SizeofMaterialID)
                 IN  RenderMeshes(ms, scene, map, pv, stg, ub, k + 1,
                       [status      |-> st.status,
                        transforms  |-> transforms,
                        materialIDs |-> materialIDs,
                        gl |-> st.gl \o
                          MeshCommands(fill,
                             SubData("transforms", mesh.id, st.transforms, 0,
                                     TransformBytes(size)),
                             SubData("materialIDs", mesh.id, st.materialIDs,
                                     0, MaterialIDBytes(size)),
                             Draw(mesh, size, transforms, materialIDs))])

(***************************************************************************)
(* MyView::UniformData and the lights.  A vector is stood for by an        *)
(* integer, an attenuation coefficient by its value in tenths.             *)
(***************************************************************************)
MAX_LIGHTS  == 20

\* enum class LightType.
Point       == 0
Spot        == 1
Directional == 2

\* The light of the scene at position i of getAllLights, of the given kind;
\* none of its fields has the value the shader-side Light starts with.
SceneLight(i, kind) ==
    [position |-> 100 + i, direction |-> 200 + i, type |-> kind,
     coneAngle |-> 30 + kind, colour |-> 2 + kind, concentration |-> 3,
     aConstant |-> 20, aLinear |-> 5, aQuadratic |-> 2]

\* The numbers of lights a scene may hold: few, and about MAX_LIGHTS.
LightCounts ==
    (0 .. MaxExtraLights) \cup (MAX_LIGHTS - 1 .. MAX_LIGHTS + MaxExtraLights)

\* getAllLights of a scene: the kinds of the lights go round from `first`.
LightsOf(k, first) == [i \in 1 .. k |-> SceneLight(i, (i + first) % 3)]

LightLists == { LightsOf(k, first) : k \in LightCounts, first \in 0 .. 2 }

\* The position and the direction of the scene's camera.
CameraPosition  == 7
CameraDirection == 8

\* struct Light with its default member initialisers.
DefaultLight ==
    [position |-> 1, type |-> Point, direction |-> 1, coneAngle |-> 90,
     colour |-> 1, concentration |-> 7, aConstant |-> 10, aLinear |-> 0,
     aQuadratic |-> 10, emitWireframe |-> 0]

\* UniformData data { }: the matrices, the camera position, the ambience,
\* the light count and the light array (slot i of the code is
\* m_lights[i + 1] here).  A matrix is stood for by its name.
DefaultUniformData ==
    [m_projection |-> "mat4 (1)", m_view |-> "mat4 (1)",
     m_cameraPosition |-> 0, m_ambience |-> "vec4 (1)", m_numLights |-> 0,
     m_lights |-> [i \in 1 .. MAX_LIGHTS |-> DefaultLight]]

\* util::clamp for arithmetic types.
clamp(value, min, max) ==
    IF value < min THEN min ELSE IF value > max THEN max ELSE value

\* A setLightCount that stores the count as given.
setLightCount_Unclamped(this, count) ==
    [this EXCEPT !.m_numLights = count]

\* UniformData::setLightCount.
setLightCount(this, count) ==
    [this EXCEPT !.m_numLights = clamp(count, 0, MAX_LIGHTS)]

\* A precondition without the upper limit.
ValidIndex_NoUpperLimit(index) == index >= 0

\* The precondition of both setLight overloads: m_lights[index] is written
\* when it holds and left alone when it does not.
ValidIndex(index) == index < MAX_LIGHTS /\ index >= 0

\* UniformData::setLight (index, SceneModel::Light, LightType).
setLight(this, index, light, type) ==
    IF ValidIndex(index)
    THEN [this EXCEPT !.m_lights[index + 1] =
            [@ EXCEPT !.type = type,
                      !.position = light.position,
                      !.direction = light.direction,
                      !.coneAngle = light.coneAngle,
                      !.aConstant = light.aConstant,
                      !.aQuadratic = light.aQuadratic]]
    ELSE this

\* UniformData::setLight (index, Light).
setShaderLight(this, index, light) ==
    IF ValidIndex(index)
    THEN [this EXCEPT !.m_lights[index + 1] = light]
    ELSE this

\* A wireframe light that lacks the flag.
createWireframeLight_NoFlag ==
    [DefaultLight EXCEPT !.position = CameraPosition,
                         !.direction = CameraDirection,
                         !.aConstant = 10, !.aLinear = 3, !.aQuadratic = 0,
                         !.type = Point]

\* MyView::createWireframeLight.
createWireframeLight ==
    [DefaultLight EXCEPT !.position = CameraPosition,
                         !.direction = CameraDirection,
                         !.aConstant = 10, !.aLinear = 3, !.aQuadratic = 0,
                         !.emitWireframe = 1, !.type = Point]

\* The loop of setUniforms over the scene's lights, from the i-th on (i
\* counts from 0 as in the code).
RECURSIVE SetLights(_, _, _)
SetLights(this, sceneLights, i) ==
    IF i >= Len(sceneLights) THEN this
    ELSE SetLights(setLight(this, i, sceneLights[i + 1], Spot),
                   sceneLights, i + 1)

\* Light::operator= (Light&&): the ten members go to the target, which is
\* `this` of the result, and the scalar members of the source are reset.
MoveLight(move) ==
    [this |-> move,
     move |-> [move EXCEPT !.type = Point, !.coneAngle = 0,
                           !.concentration = 0, !.aConstant = 0,
                           !.aLinear = 0, !.aQuadratic = 0,
                           !.emitWireframe = 0]]

\* UniformData::operator= (UniformData&&) between two distinct objects: the
\* members are moved across, the lights one by one, and then m_numLights
\* of the target is set to 0.
MoveUniformData(move) ==
    [this |-> [m_projection     |-> move.m_projection,
               m_view           |-> move.m_view,
               m_cameraPosition |-> move.m_cameraPosition,
               m_ambience       |-> move.m_ambience,
               m_numLights      |-> 0,
               m_lights |-> [i \in 1 .. MAX_LIGHTS |->
                                MoveLight(move.m_lights[i]).this]],
     move |-> [move EXCEPT !.m_lights =
                 [i \in 1 .. MAX_LIGHTS |->
                     MoveLight(move.m_lights[i]).move]]]

\* The UniformData that setUniforms fills and uploads.
UniformBlock(sceneLights, wireframeMode) ==
    LET camera == [DefaultUniformData EXCEPT
                      !.m_projection = "projection",
                      !.m_view = "view",
                      !.m_cameraPosition = CameraPosition,
                      !.m_ambience = "getAmbientLightIntensity"]
        copied == SetLights(camera, sceneLights, 0)
        lightCount == Len(sceneLights)
    IN  IF wireframeMode
        THEN setLightCount(setShaderLight(copied, lightCount,
                                          createWireframeLight),
                           lightCount + 1)
        ELSE setLightCount(copied, lightCount)

\* The lights of the demo.
DemoLights == LightsOf(2, 0)

\* The UniformData objects a program may hold: those of a frame under any
\* lights, and a fresh one.
UniformDatas ==
    { UniformBlock(l, w) : l \in LightLists, w \in BOOLEAN }
        \cup { DefaultUniformData }

(***************************************************************************)
(* The fragment shader, sponza_fs.glsl lines 1-360, for one light and one  *)
(* colour channel.  A float is an integer number of thousandths; the       *)
(* fields of a Light are converted from the units of struct Light above.   *)
(* The unit vector L is stood for by the three dot products the shader     *)
(* takes of it: N is dot (L, N), D is dot (-direction, L), which is also   *)
(* dot (-L, direction), and RV is dot (-reflect (L, N), V).                *)
(***************************************************************************)
Scale == 1000

\* The float that is not a number; every comparison with it is false.
NaN == 0 - 1000000

\* The product and the quotient of two floats, rounded down, and the
\* product rounded up, under which a product of positive floats is positive.
Mul(a, b)   == (a * b) \div Scale
MulUp(a, b) == (a * b + Scale - 1) \div Scale
Div(a, b)   == (a * Scale) \div b

\* light.aConstant, light.aLinear and light.aQuadratic as floats.
Coefficient(tenths) == tenths * (Scale \div 10)

\* The operators < and > of GLSL.
Less(x, y)    == x # NaN /\ y # NaN /\ x < y
Greater(x, y) == x # NaN /\ y # NaN /\ x > y

\* max of GLSL: y if x < y, otherwise x.
max(x, y) == IF Less(x, y) THEN y ELSE x

\* cos of GLSL, whose argument is an angle in radians: the cosines of 15,
\* 30, ... radians.
cos(angle) ==
    CASE angle = 0  -> 1000
      [] angle = 15 -> 0 - 760
      [] angle = 30 -> 154
      [] angle = 45 -> 525
      [] angle = 60 -> 0 - 952
      [] angle = 75 -> 922
      [] angle = 90 -> 0 - 448

\* The dot product of two unit vectors that are the given number of
\* degrees apart.
DotAtDegrees(degrees) ==
    CASE degrees = 0  -> 1000
      [] degrees = 15 -> 966
      [] degrees = 30 -> 866
      [] degrees = 45 -> 707
      [] degrees = 60 -> 500
      [] degrees = 75 -> 259
      [] degrees = 90 -> 0

\* smoothstep of GLSL: t * t * (3 - 2 * t) for t the clamped ratio.
smoothstep(edge0, edge1, x) ==
    LET t == clamp(Div(x - edge0, edge1 - edge0), 0, Scale)
    IN  MulUp(MulUp(t, t), 3 * Scale - 2 * t)

\* pow of GLSL for a base that is not negative and an exponent that is a
\* whole number.
RECURSIVE pow(_, _)
pow(x, y) == IF y <= 0 THEN Scale ELSE Mul(pow(x, y - 1), x)

\* wireframe(): the white of a line of the wireframe, mix (3, 0, 0).
wireframe == 3 * Scale

\* The sum of the attenuation formula, Kc + Kl * d + Kq * d * d.
Denominator(light, distance) ==
    Coefficient(light.aConstant)
        + Mul(Coefficient(light.aLinear), distance)
        + Mul(Mul(Coefficient(light.aQuadratic), distance), distance)

pointLightAttenuation(light, distance) ==
    Div(Scale, Denominator(light, distance))

spotLightLuminanceAttenuation(light, L, distance) ==
    LET lighting  == max(L.D, 0)
        numerator == pow(lighting, light.concentration)
    IN  Div(numerator, Denominator(light, distance))

\* spotLightConeAttenuation: light.directionAngle.w holds the cone angle as
\* UniformData::setLight stored it, and its half is handed to cos as it is.
spotLightConeAttenuation(light, L) ==
    LET coneFactor == max(L.D, 0)
        halfAngle  == cos(light.coneAngle \div 2)
    IN  smoothstep(0, Scale, Div(coneFactor - halfAngle, halfAngle))

\* calculateLighting: the value returned, and with it the local
\* specularLighting.
calculateLighting(material, L, colour, lambertian) ==
    LET lit == Greater(lambertian, 0)
        diffuseLighting ==
            IF lit
            THEN Mul(Mul(material.diffuse, material.texture), lambertian)
            ELSE 0
        specularLighting ==
            IF lit /\ Greater(material.shininess, 0)
            THEN Mul(material.specular, pow(max(L.RV, 0), material.shininess))
            ELSE 0
    IN  [lighting |-> Mul(colour, diffuseLighting + specularLighting),
         specularLighting |-> specularLighting]

\* The values the division of line 218 may give when distance is 0: under
\* #version 330 its result is not specified.  L is then not a number in
\* every component, or the zero vector, or a vector along N and against
\* the light's direction.
UnspecifiedL == { [N |-> u, D |-> u, RV |-> u] : u \in { NaN, 0, Scale } }

\* processLight for the material of the fragment: `vector` is
\* (light.positionType.xyz - Q) / distance where the distance is not 0, and
\* `unspecified` is what the division gives where it is.
processLight(light, material, distance, vector, unspecified) ==
    LET L == IF distance = 0 THEN unspecified ELSE vector
        lambertian == max(L.N, 0)
        attenuation ==
            CASE light.type = Point ->
                    pointLightAttenuation(light, distance)
              [] light.type = Spot ->
                    Mul(spotLightLuminanceAttenuation(light, L, distance),
                        spotLightConeAttenuation(light, L))
              [] OTHER -> Scale
        attenuatedColour == Mul(light.colour * Scale, attenuation)
        emissiveLighting == calculateLighting(material, L, Scale, lambertian)
        phong == calculateLighting(material, L, attenuatedColour, lambertian)
    IN  IF Greater(lambertian, 0) /\ Greater(attenuation, 0)
        THEN IF light.emitWireframe # 1
             THEN phong
             ELSE [lighting |-> Mul(emissiveLighting.lighting + wireframe,
                                    smoothstep(0, Scale, attenuation)),
                   specularLighting |-> emissiveLighting.specularLighting]
        ELSE [lighting |-> 0, specularLighting |-> 0]

\* The cone angles a scene gives its spot lights, in degrees, and the
\* angles between the direction of a light and its direction to a surface.
ConeAngles == { 30 * k : k \in 1 .. MaxConeSteps }
Angles     == { 15 * j : j \in 0 .. 6 }

\* The light of the scene with the given cone angle, as setLight stores it
\* under the given type, and the wireframe light.
ShadedLight(coneAngle, type) ==
    setLight(DefaultUniformData, 0,
             [SceneLight(1, Spot) EXCEPT !.coneAngle = coneAngle],
             type).m_lights[1]

ShadedLights ==
    { ShadedLight(coneAngle, type) :
        coneAngle \in ConeAngles, type \in { Point, Spot, Directional } }
        \cup { createWireframeLight }

\* The material obtainMaterialProperties leaves in `material`: white,
\* untextured, of the given shininess.
MaterialOf(shininess) ==
    [diffuse |-> Scale, texture |-> Scale, specular |-> Scale,
     shininess |-> shininess]

\* The inputs of processLight: the light, the material, the distance of
\* the light from the fragment and, where that is not 0, the vector L with
\* the angle that gives its D.
Fragments ==
    { [light |-> light, material |-> MaterialOf(shininess),
       distance |-> distance, angle |-> angle,
       L |-> [N |-> N, D |-> DotAtDegrees(angle), RV |-> RV]] :
        light \in ShadedLights, shininess \in { 0 - 1, 0, 2 },
        distance \in { 0, Scale, 2 * Scale }, angle \in Angles,
        N \in { 0 - 500, 500, Scale }, RV \in { 0 - 500, 500 } }

DemoFragment ==
    [light |-> ShadedLight(30, Spot), material |-> MaterialOf(2),
     distance |-> Scale, angle |-> 0,
     L |-> [N |-> Scale, D |-> DotAtDegrees(0), RV |-> 500]]

\* No function of the shader has run.
NotShaded == [op |-> "none", value |-> 0, specularLighting |-> 0]

(***************************************************************************)
(* The layout of UniformData.  Under #pragma pack (push, 4) no member is   *)
(* padded, so a member's offset is the sum of the sizes before it.         *)
(***************************************************************************)
\* The members of struct Light in declaration order, with their sizes.
LightFields ==
    << << "position", 12 >>, << "type", 4 >>,
       << "direction", 12 >>, << "coneAngle", 4 >>,
       << "colour", 12 >>, << "concentration", 4 >>,
       << "aConstant", 4 >>, << "aLinear", 4 >>,
       << "aQuadratic", 4 >>, << "emitWireframe", 4 >> >>

RECURSIVE SizeofFields(_, _)
SizeofFields(fields, n) ==
    IF n = 0 THEN 0 ELSE SizeofFields(fields, n - 1) + fields[n][2]

Sizeof(fields) == SizeofFields(fields, Len(fields))

OffsetOf(fields, name) ==
    SizeofFields(fields,
                 (CHOOSE i \in 1 .. Len(fields) : fields[i][1] = name) - 1)

\* A UniformData without the m_unused array.
UniformDataFields_NoPadding ==
    << << "m_projection", 64 >>, << "m_view", 64 >>,
       << "m_cameraPosition", 16 >>, << "m_ambience", 16 >>,
       << "m_numLights", 4 >>, << "m_alignment", 3 * 4 >>,
       << "m_lights", Sizeof(LightFields) * MAX_LIGHTS >> >>

\* The data members of MyView::UniformData in declaration order.
UniformDataFields ==
    << << "m_projection", 64 >>, << "m_view", 64 >>,
       << "m_cameraPosition", 16 >>, << "m_ambience", 16 >>,
       << "m_unused", 24 * 4 >>,
       << "m_numLights", 4 >>, << "m_alignment", 3 * 4 >>,
       << "m_lights", Sizeof(LightFields) * MAX_LIGHTS >> >>

\* UniformData::lightingSize, lightingOffset, sceneOffset and sceneSize.
lightingSize   == Sizeof(LightFields) * MAX_LIGHTS + 16
lightingOffset == Sizeof(UniformDataFields) - lightingSize
sceneOffset    == 0
sceneSize      == lightingOffset

\* glBindBufferRange of the two blocks onto the UBO.
BindBufferRanges ==
    << [op |-> "bindrange", target |-> "scene", mesh |-> 0,
        offset |-> sceneOffset, size |-> sceneSize],
       [op |-> "bindrange", target |-> "lighting", mesh |-> 0,
        offset |-> lightingOffset, size |-> lightingSize] >>

\* MyView::setUniforms: the whole UniformData record goes to the UBO in one
\* write.
setUniforms(pv) ==
    [op |-> "subdata", target |-> "uniform", mesh |-> 0, offset |-> 0,
     size |-> Sizeof(UniformDataFields), accepted |-> TRUE]

(***************************************************************************)
(* The operations.                                                         *)
(***************************************************************************)
\* The shader files on disk: whether sponza_vs.glsl and sponza_fs.glsl
\* compile and link.
ShaderSources == { "valid", "invalid" }

\* A build that yields a linked program whatever the files hold.
buildProgram_AlwaysLinked(sources) == "linked"

\* MyView::buildProgram: the program, linked or left unlinked by a failed
\* compilation or link.
buildProgram(sources) == IF sources = "valid" THEN "linked" ELSE "failed"

\* What the build writes: util::linkProgram sends the link log to std::cerr,
\* windowViewWillStart announces a success on std::cout.
BuildMessage(program) ==
    [op |-> "message",
     target |-> IF program = "linked" THEN "cout" ELSE "cerr",
     mesh |-> 0, offset |-> 0, size |-> 0, accepted |-> TRUE]

\* The two shader files of buildProgram and the names glCreateShader gives
\* their shader objects; glCreateShader returns 0 only for a bad type.
ShaderFiles == << "sponza_vs.glsl", "sponza_fs.glsl" >>
ShaderName(file) == IF file = "sponza_vs.glsl" THEN 1 ELSE 2

\* glCompileShader: invalid sources have a syntax error in sponza_fs.glsl.
CompileStatus(sources, file) ==
    sources = "valid" \/ file = "sponza_vs.glsl"

\* util::compileShaderFromFile: the shader is created and compiled, a
\* failure sends the info log to std::cerr, and the name of the shader is
\* returned either way.
compileShaderFromFile(sources, file) ==
    [id |-> ShaderName(file), file |-> file,
     compiled |-> CompileStatus(sources, file)]

\* What compileShaderFromFile writes and submits.
CompileLog(shader) ==
    << [op |-> "compile", target |-> shader.file, mesh |-> shader.id,
        offset |-> 0, size |-> 0, accepted |-> shader.compiled] >> \o
    (IF shader.compiled THEN << >>
     ELSE << [op |-> "shaderlog", target |-> "cerr", mesh |-> shader.id,
              offset |-> 0, size |-> 0, accepted |-> TRUE] >>)

\* util::attachShader: glAttachShader unless the shader name is 0.
attachShader(shader) ==
    IF shader.id # 0
    THEN << [op |-> "attach", target |-> shader.file, mesh |-> shader.id,
             offset |-> 0, size |-> 0, accepted |-> TRUE,
             compiled |-> shader.compiled] >>
    ELSE << >>

\* The commands of MyView::buildProgram and the message that follows it.
BuildLog(sources) ==
    LET vertexShader   == compileShaderFromFile(sources, ShaderFiles[1])
        fragmentShader == compileShaderFromFile(sources, ShaderFiles[2])
    IN  CompileLog(vertexShader) \o CompileLog(fragmentShader) \o
        attachShader(vertexShader) \o attachShader(fragmentShader) \o
        << BuildMessage(buildProgram(sources)) >>

\* The GL objects whose names the view holds, in the order in which
\* deleteOpenGLObjects deletes them.
GLObjectList ==
    << "m_program", "m_sceneVAO", "m_vertexVBO", "m_elementVBO",
       "m_uniformUBO", "m_materials.vbo", "m_poolMaterialIDs.vbo",
       "m_poolTransforms", "m_textureArray", "m_materials.tbo",
       "m_poolMaterialIDs.tbo" >>
GLObjects == { GLObjectList[i] : i \in 1 .. Len(GLObjectList) }

\* A member holds 0 ("zero"), the name of an object of the view ("live") or
\* a name whose object the view has deleted ("deleted"): GL may give such
\* a name to another object.
NameStates == { "zero", "live", "deleted" }

\* glCreateProgram of buildProgram and MyView::generateOpenGLObjects: every
\* member gets a fresh name.
generateOpenGLObjects(names) == [o \in GLObjects |-> "live"]

\* MyView::deleteOpenGLObjects: the objects are deleted, the members keep
\* their values.
deleteOpenGLObjects(names) ==
    [o \in GLObjects |-> IF names[o] = "live" THEN "deleted" ELSE names[o]]

\* The glDelete calls of deleteOpenGLObjects, each with what its name
\* refers to when the call is made.
DeleteLog(names) ==
    [i \in 1 .. Len(GLObjectList) |->
        [op |-> "delete", target |-> GLObjectList[i], mesh |-> 0,
         offset |-> 0, size |-> 0, accepted |-> TRUE,
         name |-> names[GLObjectList[i]]]]

\* A lookup that inserts a value for every key the map lacks, as operator[]
\* does.
MapAfterAt_Inserting(map, keys) ==
    [x \in DOMAIN map \cup keys |-> IF x \in DOMAIN map THEN map[x] ELSE 0]

\* The map after m_materialIDs.at for the given keys: at never inserts.
MapAfterAt(map, keys) == map

\* The material ids windowViewRender looks up in a frame.
LookedUp(scene, ms) ==
    { scene.instances[j].material :
        j \in { i \in 1 .. Len(scene.instances) :
                  \E k \in 1 .. Len(ms) : ms[k].id = scene.instances[i].mesh } }

\* MyView::SamplerBuffer::operator= (SamplerBuffer&&): both names go to the
\* target, which is `this` of the result, and the source is reset.
MoveSamplerBuffer(move) ==
    [this |-> [vbo |-> move.vbo, tbo |-> move.tbo],
     move |-> [vbo |-> 0, tbo |-> 0]]

\* A MyView as its default member initialisers leave it; a shared_ptr is
\* stood for by the sequence of what it points to.
DefaultView ==
    [m_program |-> 0, m_sceneVAO |-> 0, m_vertexVBO |-> 0,
     m_elementVBO |-> 0, m_uniformUBO |-> 0,
     m_materials |-> [vbo |-> 0, tbo |-> 0], m_textureArray |-> 0,
     m_instancePoolSize |-> 0, m_poolMaterialIDs |-> [vbo |-> 0, tbo |-> 0],
     m_poolTransforms |-> 0, m_aspectRatio |-> 0, m_scene |-> << >>,
     m_meshes |-> << >>, m_materialIDs |-> NoMaterialIDs,
     m_wireframeMode |-> FALSE, m_wireframeType |-> 0]

\* The name GL gives the i-th object of GLObjectList.
NameOf(object) ==
    CHOOSE i \in 1 .. Len(GLObjectList) : GLObjectList[i] = object

\* A MyView after setScene, the toggles and windowViewWillStart with the
\* meshes of the demo.
StartedView(scene, wireframeMode, wireframeType) ==
    LET built == buildMeshData(DemoMeshes(MaxMeshes)).m_meshes
    IN  [m_program |-> NameOf("m_program"),
         m_sceneVAO |-> NameOf("m_sceneVAO"),
         m_vertexVBO |-> NameOf("m_vertexVBO"),
         m_elementVBO |-> NameOf("m_elementVBO"),
         m_uniformUBO |-> NameOf("m_uniformUBO"),
         m_materials |-> [vbo |-> NameOf("m_materials.vbo"),
                          tbo |-> NameOf("m_materials.tbo")],
         m_textureArray |-> NameOf("m_textureArray"),
         m_instancePoolSize |-> highestInstanceCount(built, scene),
         m_poolMaterialIDs |-> [vbo |-> NameOf("m_poolMaterialIDs.vbo"),
                                tbo |-> NameOf("m_poolMaterialIDs.tbo")],
         m_poolTransforms |-> NameOf("m_poolTransforms"),
         m_aspectRatio |-> 1, m_scene |-> << scene >>,
         m_meshes |-> built,
         m_materialIDs |-> buildMaterialData(scene, EmptyMap),
         m_wireframeMode |-> wireframeMode,
         m_wireframeType |-> wireframeType]

\* A scene without instances and materials.
EmptyScene == [instances |-> << >>, materials |-> << >>]

\* The views a program may move from: a fresh one and started ones.
MyViews ==
    { DefaultView } \cup
    { StartedView(scene, mode, type) :
        scene \in { x \in SceneSet : Len(x.instances) <= 1 },
        mode \in BOOLEAN, type \in 0 .. 2 }

\* MyView::operator= (MyView&&) between two distinct views: the members
\* assigned, in order, with m_materials moved twice, then the primitives of
\* the source reset.  m_materialIDs, m_wireframeMode and m_wireframeType
\* are not mentioned.
MoveView(this, move) ==
    LET materials1  == MoveSamplerBuffer(move.m_materials)
        materialIDs == MoveSamplerBuffer(move.m_poolMaterialIDs)
        materials2  == MoveSamplerBuffer(materials1.move)
    IN  [this |-> [this EXCEPT
                     !.m_program = move.m_program,
                     !.m_sceneVAO = move.m_sceneVAO,
                     !.m_vertexVBO = move.m_vertexVBO,
                     !.m_elementVBO = move.m_elementVBO,
                     !.m_uniformUBO = move.m_uniformUBO,
                     !.m_textureArray = move.m_textureArray,
                     !.m_materials = materials2.this,
                     !.m_instancePoolSize = move.m_instancePoolSize,
                     !.m_poolTransforms = move.m_poolTransforms,
                     !.m_poolMaterialIDs = materialIDs.this,
                     !.m_aspectRatio = move.m_aspectRatio,
                     !.m_scene = move.m_scene,
                     !.m_meshes = move.m_meshes],
         move |-> [move EXCEPT
                     !.m_program = 0, !.m_sceneVAO = 0, !.m_vertexVBO = 0,
                     !.m_elementVBO = 0, !.m_uniformUBO = 0,
                     !.m_textureArray = 0,
                     !.m_materials = materials2.move,
                     !.m_instancePoolSize = 0, !.m_poolTransforms = 0,
                     !.m_poolMaterialIDs = materialIDs.move,
                     !.m_aspectRatio = 0,
                     !.m_scene = << >>,
                     !.m_meshes = << >>]]

\* The UBO before glBufferData and after glDeleteBuffers.
NoUniformData == [m_cameraPosition |-> 0, m_numLights |-> 0, m_lights |-> << >>]

Init ==
    /\ meshes \in MeshLists
    /\ m_scene \in SceneSet
    /\ lights \in LightLists
    /\ ambientMaps \in AmbientMapSet
    /\ pngFiles \in PngFileSet
    /\ shaders \in ShaderSources
    /\ uniformData \in UniformDatas
    /\ moved \in UniformDatas
    /\ outside = FALSE
    /\ views \in [this : { DefaultView, StartedView(EmptyScene, FALSE, 0) },
                  move : MyViews]
    /\ fragment \in Fragments
    /\ shaded = NotShaded
    /\ phase = "constructed"
    /\ m_program = "none"
    /\ m_meshes = << >>
    /\ m_vertexVBO = DeletedBuffer
    /\ m_elementVBO = DeletedBuffer
    /\ m_uniformUBO = DeletedBuffer
    /\ m_materials = DeletedBuffer
    /\ m_textureArray = NoTextureArray
    /\ m_instancePoolSize = 0
    /\ m_poolTransforms = DeletedBuffer
    /\ m_poolMaterialIDs = DeletedBuffer
    /\ m_materialIDs = NoMaterialIDs
    /\ m_wireframeMode = FALSE
    /\ m_wireframeType = 0
    /\ glNames = [o \in GLObjects |-> "zero"]
    /\ staging = [init |-> FALSE, materialIDs |-> 0, matrices |-> 0]
    /\ handler = "MyView"
    /\ gl = << >>
    /\ outcome = "completed"

\* The objects that are exercised apart from the view.
units == << uniformData, moved, outside, views, fragment, shaded >>

\* What no handler of the view writes: the geometry, the lights and the
\* materials' images, the shader files, the objects apart from the view.
collaborators == << meshes, lights, ambientMaps, pngFiles, shaders, units >>

\* What only the handlers of the view write.
view == << m_scene, phase, m_program, m_meshes, m_vertexVBO, m_elementVBO,
           m_uniformUBO, m_materials, m_textureArray, m_instancePoolSize,
           m_poolTransforms, m_poolMaterialIDs, m_materialIDs,
           m_wireframeMode, m_wireframeType, glNames, staging >>

\* The integers a caller may pass for a light index or a light count:
\* about 0 and about MAX_LIGHTS.
Arguments ==
    (0 - MaxOutside .. MaxOutside) \cup
    (MAX_LIGHTS - MaxOutside .. MAX_LIGHTS + MaxOutside)

\* A call of a setter with its integer argument, as the log records it.
Call(setter, argument) ==
    << [op |-> "call", target |-> setter, mesh |-> 0, offset |-> 0,
        size |-> 0, accepted |-> TRUE, argument |-> argument] >>

\* A call of UniformData::setLightCount.
callSetLightCount ==
    /\ \E count \in Arguments :
          /\ uniformData' = setLightCount(uniformData, count)
          /\ gl' = Call("setLightCount", count)
    /\ handler' = "setLightCount"
    /\ UNCHANGED << fragment, shaded, meshes, lights, ambientMaps, pngFiles, shaders, moved,
                    outside, views, view, outcome >>

\* A call of UniformData::setLight with a light of the scene.
callSetLight ==
    /\ \E index \in Arguments :
          /\ uniformData' = setLight(uniformData, index, lights[1], Spot)
          /\ gl' = Call("setLight", index)
          /\ outside' = (outside \/ (ValidIndex(index) /\
                                        index \notin 0 .. MAX_LIGHTS - 1))
    /\ handler' = "setLight"
    /\ UNCHANGED << fragment, shaded, meshes, lights, ambientMaps, pngFiles, shaders, moved,
                    views, view, outcome >>

\* A call of UniformData::setLight with a shader-ready light.
callSetShaderLight ==
    /\ \E index \in Arguments :
          /\ uniformData' = setShaderLight(uniformData, index,
                                           createWireframeLight)
          /\ gl' = Call("setLight", index)
          /\ outside' = (outside \/ (ValidIndex(index) /\
                                        index \notin 0 .. MAX_LIGHTS - 1))
    /\ handler' = "setLight"
    /\ UNCHANGED << fragment, shaded, meshes, lights, ambientMaps, pngFiles, shaders, moved,
                    views, view, outcome >>

\* spotLightConeAttenuation for the light and the unit vector L of the
\* fragment.
callSpotLightConeAttenuation ==
    /\ fragment.distance > 0
    /\ shaded' = [op |-> "spotLightConeAttenuation",
                  value |-> spotLightConeAttenuation(fragment.light,
                                                     fragment.L),
                  specularLighting |-> 0]
    /\ UNCHANGED << fragment, meshes, lights, ambientMaps, pngFiles, shaders,
                    uniformData, moved, outside, views, view, handler, gl,
                    outcome >>

\* processLight for the fragment, as main calls it for a light.
callProcessLight ==
    /\ \E unspecified \in UnspecifiedL :
          LET lit == processLight(fragment.light, fragment.material,
                                  fragment.distance, fragment.L, unspecified)
          IN  shaded' = [op |-> "processLight", value |-> lit.lighting,
                         specularLighting |-> lit.specularLighting]
    /\ UNCHANGED << fragment, meshes, lights, ambientMaps, pngFiles, shaders,
                    uniformData, moved, outside, views, view, handler, gl,
                    outcome >>

\* views.this = std::move (views.move).
moveAssignView ==
    /\ views' = MoveView(views.this, views.move)
    /\ handler' = "MyView::operator="
    /\ UNCHANGED << fragment, shaded, meshes, lights, ambientMaps, pngFiles, shaders,
                    uniformData, moved, outside, view, gl, outcome >>

\* uniformData = std::move (moved).
moveAssign ==
    /\ uniformData' = MoveUniformData(moved).this
    /\ moved' = MoveUniformData(moved).move
    /\ handler' = "UniformData::operator="
    /\ UNCHANGED << fragment, shaded, meshes, lights, ambientMaps, pngFiles, shaders, outside,
                    views, view, gl, outcome >>

\* MyView::setScene.
setScene ==
    /\ phase \in { "constructed", "started", "stopped" }
    /\ \E scene \in SceneSet : m_scene' = scene
    /\ handler' = "setScene"
    /\ gl' = << >>
    /\ outcome' = "completed"
    /\ UNCHANGED << collaborators, phase, m_program, m_meshes, m_vertexVBO,
                    m_elementVBO, m_uniformUBO, m_materials, m_textureArray,
                    m_instancePoolSize, m_poolTransforms, m_poolMaterialIDs,
                    m_materialIDs, m_wireframeMode, m_wireframeType,
                    glNames, staging >>

\* MyView::toggleWireframeMode.
toggleWireframeMode ==
    /\ phase \in { "constructed", "started", "stopped" }
    /\ m_wireframeMode' = ~m_wireframeMode
    /\ handler' = "toggleWireframeMode"
    /\ gl' = << >>
    /\ outcome' = "completed"
    /\ UNCHANGED << collaborators, m_scene, phase, m_program, m_meshes,
                    m_vertexVBO, m_elementVBO, m_uniformUBO, m_materials,
                    m_textureArray, m_instancePoolSize, m_poolTransforms,
                    m_poolMaterialIDs, m_materialIDs, m_wireframeType,
                    glNames, staging >>

\* MyView::toggleWireframeType.
toggleWireframeType ==
    /\ phase \in { "constructed", "started", "stopped" }
    /\ m_wireframeType' = (m_wireframeType + 1) % 3
    /\ handler' = "toggleWireframeType"
    /\ gl' = << >>
    /\ outcome' = "completed"
    /\ UNCHANGED << collaborators, m_scene, phase, m_program, m_meshes,
                    m_vertexVBO, m_elementVBO, m_uniformUBO, m_materials,
                    m_textureArray, m_instancePoolSize, m_poolTransforms,
                    m_poolMaterialIDs, m_materialIDs, m_wireframeMode,
                    glNames, staging >>

\* The state MyView::windowViewWillStart leaves, from the material map `map`
\* and the names `names` of the members, after the commands `stopped`:
\* buildProgram, whose result only decides a message, generateOpenGLObjects,
\* then buildMeshData, allocateExtraBuffers and buildMaterialData.
Started(map, names, stopped) ==
    LET built     == buildMeshData(meshes)
        poolSize  == highestInstanceCount(built.m_meshes, m_scene)
        images    == loadImagesFromScene(m_scene.materials, ambientMaps,
                                         pngFiles)
        materials == BufferMaterials(m_scene.materials, ambientMaps, images)
    IN  /\ m_program' = buildProgram(shaders)
        /\ m_meshes' = built.m_meshes
        /\ m_vertexVBO' = built.vertexVBO
        /\ m_elementVBO' = built.elementVBO
        /\ m_instancePoolSize' = poolSize
        /\ m_uniformUBO' =
              allocateBuffer(Sizeof(UniformDataFields),
                             Sizeof(UniformDataFields), NoUniformData)
        /\ m_poolTransforms' =
              allocateBuffer(transformSize(poolSize),
                             SizeofMat4 * MatricesPerSlot, NoTransform)
        /\ m_poolMaterialIDs' =
              allocateBuffer(materialIDSize(poolSize), SizeofMaterialID,
                             NoMaterialID)
        /\ m_materialIDs' = buildMaterialData(m_scene, map)
        /\ m_materials' = fillBuffer(materials, SizeofMaterial)
        /\ m_textureArray' = TextureArray(images)
        /\ glNames' = generateOpenGLObjects(names)
        /\ gl' = stopped \o BuildLog(shaders) \o built.gl \o
              << Allocate("uniform", Sizeof(UniformDataFields)),
                 Allocate("transforms", transformSize(poolSize)),
                 Allocate("materialIDs", materialIDSize(poolSize)),
                 Allocate("materials", Len(materials) * SizeofMaterial) >>
        /\ phase' = "started"
        /\ outcome' = "completed"

\* MyView::windowViewWillStart, called by the window when the view is set.
windowViewWillStart ==
    /\ phase \in { "constructed", "stopped" }
    /\ Started(m_materialIDs, glNames, << >>)
    /\ handler' = "windowViewWillStart"
    /\ UNCHANGED << collaborators, m_scene, m_wireframeMode,
                    m_wireframeType, staging >>

\* The state MyView::windowViewDidStop leaves: cleanMeshMaterials deletes
\* the Mesh records and clears both containers, deleteOpenGLObjects deletes
\* the GL objects.
Stopped ==
    /\ m_program' = "none"
    /\ m_meshes' = << >>
    /\ m_materialIDs' = EmptyMap
    /\ m_vertexVBO' = DeletedBuffer
    /\ m_elementVBO' = DeletedBuffer
    /\ m_uniformUBO' = DeletedBuffer
    /\ m_materials' = DeletedBuffer
    /\ m_textureArray' = NoTextureArray
    /\ m_poolTransforms' = DeletedBuffer
    /\ m_poolMaterialIDs' = DeletedBuffer
    /\ glNames' = deleteOpenGLObjects(glNames)
    /\ gl' = DeleteLog(glNames)
    /\ outcome' = "completed"
    /\ UNCHANGED << collaborators, m_scene, m_instancePoolSize,
                    m_wireframeMode, m_wireframeType, staging >>

\* MyView::windowViewDidStop, called by the window when the view is unset.
windowViewDidStop ==
    /\ phase = "started"
    /\ Stopped
    /\ handler' = "windowViewDidStop"
    /\ phase' = "stopped"

\* MyView::~MyView: windowViewDidStop, whatever the view has been through.
destructor ==
    /\ phase \in { "constructed", "started", "stopped" }
    /\ Stopped
    /\ handler' = "~MyView"
    /\ phase' = "destroyed"

\* MyView::rebuildScene: windowViewDidStop, then windowViewWillStart.
rebuildScene ==
    /\ phase = "started"
    /\ Started(EmptyMap, deleteOpenGLObjects(glNames), DeleteLog(glNames))
    /\ handler' = "rebuildScene"
    /\ UNCHANGED << collaborators, m_scene, m_wireframeMode,
                    m_wireframeType, staging >>

\* MyView::windowViewRender: one frame.
windowViewRender ==
    /\ phase = "started"
    /\ \E ub \in UBOutcomes :
         LET pv  == ProjectionView
             stg == StaticVectors(staging, m_instancePoolSize)
             st  == RenderMeshes(m_meshes, m_scene, m_materialIDs, pv, stg,
                       ub, 1,
                       [status      |-> "ok",
                        transforms  |-> m_poolTransforms,
                        materialIDs |-> m_poolMaterialIDs,
                        gl          |-> << setUniforms(pv) >>
                                            \o BindBufferRanges])
         IN  /\ handler' = "windowViewRender"
             /\ staging' = stg
             /\ m_uniformUBO' =
                   glBufferSubData(m_uniformUBO, 0, Sizeof(UniformDataFields),
                                   << UniformBlock(lights, m_wireframeMode) >>,
                                   Sizeof(UniformDataFields))
             /\ m_poolTransforms' = st.transforms
             /\ m_poolMaterialIDs' = st.materialIDs
             /\ m_materialIDs' =
                   MapAfterAt(m_materialIDs, LookedUp(m_scene, m_meshes))
             /\ gl' = st.gl
             /\ outcome' = IF st.status = "ok" THEN "completed" ELSE st.status
             /\ phase' = IF st.status = "ok" THEN "started" ELSE "terminated"
    /\ UNCHANGED << collaborators, m_scene, m_program, m_meshes, m_vertexVBO,
                    m_elementVBO, m_materials, m_textureArray,
                    m_instancePoolSize, m_wireframeMode, m_wireframeType,
                    glNames >>

\* The images and the shaders of the demo.
DemoAmbientMaps ==
    [id \in Looks |-> IF id = 1 THEN "a.png" ELSE NoAmbientMap]
DemoPngFiles    == { "a.png" }

\* Nothing but the view is exercised.
ViewOnly ==
    /\ uniformData = DefaultUniformData
    /\ moved = DefaultUniformData
    /\ views = [this |-> DefaultView, move |-> DefaultView]
    /\ fragment = DemoFragment

DemoFiles ==
    /\ ViewOnly
    /\ lights = DemoLights
    /\ ambientMaps = DemoAmbientMaps
    /\ pngFiles = DemoPngFiles
    /\ shaders = "valid"

\* The session of the demo: the geometry builder returns the Sponza meshes.
InitDemo == meshes = DemoMeshes(MaxMeshes) /\ DemoFiles /\ Init

Next ==
    \/ setScene
    \/ windowViewWillStart
    \/ windowViewDidStop
    \/ rebuildScene
    \/ windowViewRender

Spec == InitDemo /\ [][Next]_vars

\* Loading and unloading any list of meshes with any scene.
NextLoad ==
    \/ windowViewWillStart
    \/ windowViewDidStop
    \/ rebuildScene

\* The lists of the demo's first meshes.
DemoPrefixes == { DemoMeshes(n) : n \in 0 .. MaxMeshes }

InitLoad ==
    /\ DemoFiles
    /\ Init
    /\ \/ m_scene.instances = << >>
       \/ meshes \in DemoPrefixes

SpecLoad == InitLoad /\ [][NextLoad]_vars

\* The life of a view up to its destruction.
NextLife ==
    \/ windowViewWillStart
    \/ windowViewDidStop
    \/ rebuildScene
    \/ destructor

SpecLife == InitLoad /\ [][NextLife]_vars

\* Loading any materials: what they name and which images decode vary.
InitMaterials ==
    /\ ViewOnly
    /\ meshes = DemoMeshes(1)
    /\ lights = DemoLights
    /\ shaders = "valid"
    /\ Init
    /\ m_scene.instances = << >>

SpecMaterials == InitMaterials /\ [][NextLoad]_vars

\* Frames of a scene with one instance, whose material the scene may lack,
\* under any lights and with shaders that may fail to build.
FrameScenes ==
    { [instances |-> << [mesh |-> 1, transform |-> 1, material |-> m] >>,
       materials |-> << 1 >>] : m \in Looks }

InitFrame ==
    /\ ViewOnly
    /\ meshes = DemoMeshes(1)
    /\ m_scene \in FrameScenes
    /\ ambientMaps = DemoAmbientMaps
    /\ pngFiles = DemoPngFiles
    /\ Init

NextFrame ==
    \/ windowViewWillStart
    \/ windowViewDidStop
    \/ toggleWireframeMode
    \/ toggleWireframeType
    \/ windowViewRender

SpecFrame == InitFrame /\ [][NextFrame]_vars

\* A UniformData object under any calls of its setters.
InitUniform ==
    /\ meshes = DemoMeshes(1)
    /\ m_scene = CHOOSE scene \in FrameScenes : TRUE
    /\ DemoFiles
    /\ Init

NextUniform ==
    \/ callSetLightCount
    \/ callSetLight
    \/ callSetShaderLight

SpecUniform == InitUniform /\ [][NextUniform]_vars

\* Move assignments between UniformData objects.
InitMove ==
    /\ views = [this |-> DefaultView, move |-> DefaultView]
    /\ fragment = DemoFragment
    /\ meshes = DemoMeshes(1)
    /\ m_scene = CHOOSE scene \in FrameScenes : TRUE
    /\ lights = DemoLights
    /\ ambientMaps = DemoAmbientMaps
    /\ pngFiles = DemoPngFiles
    /\ shaders = "valid"
    /\ Init

NextMove == moveAssign

SpecMove == InitMove /\ [][NextMove]_vars

\* Move assignments between views.
InitMoveView ==
    /\ meshes = DemoMeshes(1)
    /\ m_scene = CHOOSE scene \in FrameScenes : TRUE
    /\ lights = DemoLights
    /\ ambientMaps = DemoAmbientMaps
    /\ pngFiles = DemoPngFiles
    /\ shaders = "valid"
    /\ uniformData = DefaultUniformData
    /\ moved = DefaultUniformData
    /\ fragment = DemoFragment
    /\ Init

NextMoveView == moveAssignView

SpecMoveView == InitMoveView /\ [][NextMoveView]_vars

\* The shader over any fragment and any light.
InitShade ==
    /\ meshes = DemoMeshes(1)
    /\ m_scene = CHOOSE scene \in FrameScenes : TRUE
    /\ lights = DemoLights
    /\ ambientMaps = DemoAmbientMaps
    /\ pngFiles = DemoPngFiles
    /\ shaders = "valid"
    /\ uniformData = DefaultUniformData
    /\ moved = DefaultUniformData
    /\ views = [this |-> DefaultView, move |-> DefaultView]
    /\ Init

NextShade ==
    \/ callSpotLightConeAttenuation
    \/ callProcessLight

SpecShade == InitShade /\ [][NextShade]_vars

(***************************************************************************)
(* Properties of the geometry packer and of the pool sizing.               *)
(***************************************************************************)
Loaded == handler \in { "windowViewWillStart", "rebuildScene" }

RECURSIVE VerticesBefore(_), ElementsBefore(_)
VerticesBefore(k) ==
    IF k <= 1 THEN 0 ELSE VerticesBefore(k - 1) + meshes[k - 1].vertices
ElementsBefore(k) ==
    IF k <= 1 THEN 0 ELSE ElementsBefore(k - 1) + meshes[k - 1].elements

\* C7: after the packer has run, the k-th mesh in input order has as
\* vertexOffset the number of vertices of the meshes before it, as
\* indexByteOffset 4 times the number of indices of the meshes before it, and
\* as elementCount its own number of indices.
C7_PackerOffsets ==
    Loaded =>
        /\ Len(m_meshes) = Len(meshes)
        /\ \A k \in 1 .. Len(meshes) :
              /\ m_meshes[k].id = getId(k)
              /\ m_meshes[k].verticesIndex = VerticesBefore(k)
              /\ m_meshes[k].elementsOffset = 4 * ElementsBefore(k)
              /\ m_meshes[k].elementCount = meshes[k].elements

C7_Witness ==
    /\ Loaded
    /\ Len(m_meshes) = 2
    /\ m_meshes[2].verticesIndex = 2
    /\ m_meshes[2].elementsOffset = 4
    /\ m_meshes[2].elementCount = 2

\* The vertices and the bytes of indices a recorded mesh occupies.
VertexRange(k) ==
    { m_meshes[k].verticesIndex + j : j \in 0 .. meshes[k].vertices - 1 }
IndexByteRange(k) ==
    { m_meshes[k].elementsOffset + b : b \in 0 .. 4 * m_meshes[k].elementCount - 1 }

\* C8: the vertex buffer is as long as the sum of the meshes' vertex counts
\* and the index buffer 4 bytes times the sum of their index counts, every
\* mesh's copy lies inside the allocation and is what the buffer holds at
\* the mesh's range, and the ranges of two meshes do not overlap.
C8_PackingCorrect ==
    Loaded =>
        /\ m_vertexVBO.size = 32 * VerticesBefore(Len(meshes) + 1)
        /\ Len(m_vertexVBO.data) = VerticesBefore(Len(meshes) + 1)
        /\ m_elementVBO.size = 4 * ElementsBefore(Len(meshes) + 1)
        /\ \A p \in 1 .. Len(gl) :
              gl[p].op = "subdata" =>
                  /\ gl[p].accepted
                  /\ gl[p].offset + gl[p].size <=
                        (IF gl[p].target = "vertex" THEN m_vertexVBO.size
                         ELSE m_elementVBO.size)
        /\ \A k \in 1 .. Len(m_meshes) :
              /\ \A j \in 1 .. meshes[k].vertices :
                    m_vertexVBO.data[m_meshes[k].verticesIndex + j]
                        = << m_meshes[k].id, j >>
              /\ \A j \in 1 .. meshes[k].elements :
                    m_elementVBO.data[m_meshes[k].elementsOffset \div 4 + j]
                        = << m_meshes[k].id, j >>
        /\ \A k1, k2 \in 1 .. Len(m_meshes) :
              k1 # k2 =>
                  /\ VertexRange(k1) \cap VertexRange(k2) = {}
                  /\ IndexByteRange(k1) \cap IndexByteRange(k2) = {}

C8_Witness ==
    /\ Loaded
    /\ Len(m_meshes) = 2
    /\ meshes[1].vertices = 2
    /\ meshes[2].vertices = 1
    /\ m_vertexVBO.size = 96
    /\ m_elementVBO.size >= 12

\* The number of instances of a scene that use a mesh.
InstanceCount(scene, id) ==
    Cardinality({ j \in 1 .. Len(scene.instances) : scene.instances[j].mesh = id })

\* The highest instance count of the recorded meshes, 0 without one.
LargestInstanceCount(scene) ==
    LET counts == { InstanceCount(scene, m_meshes[k].id) : k \in 1 .. Len(m_meshes) }
    IN  IF counts = {} THEN 0
        ELSE CHOOSE c \in counts : \A d \in counts : d <= c

\* C9: load sets the pool capacity to the highest number of instances the
\* scene reports for a packed mesh (0 without meshes or instances) and
\* allocates the transform pool with two matrices and the material-index
\* pool with one index for each slot of that capacity.
C9_PoolSizedAtLoad ==
    Loaded =>
        /\ m_instancePoolSize = LargestInstanceCount(m_scene)
        /\ m_poolTransforms.size = m_instancePoolSize * 2 * 64
        /\ Len(m_poolTransforms.data) = m_instancePoolSize
        /\ m_poolMaterialIDs.size = m_instancePoolSize * 4
        /\ Len(m_poolMaterialIDs.data) = m_instancePoolSize

C9_Witness ==
    /\ Loaded
    /\ Len(m_meshes) = 2
    /\ InstanceCount(m_scene, 1) = 2
    /\ m_instancePoolSize = 2
    /\ m_poolTransforms.size = 256

(***************************************************************************)
(* Properties of a frame.  After windowViewRender, gl is the list of the   *)
(* commands the frame submitted, in submission order.                      *)
(***************************************************************************)
Rendered == handler = "windowViewRender"

\* The instances the scene returns for the k-th recorded mesh.
LiveInstances(k) == getInstancesByMeshId(m_scene, m_meshes[k].id)

\* The positions of the draws of a mesh in the frame.
DrawsOf(id) == { p \in 1 .. Len(gl) : gl[p].op = "draw" /\ gl[p].mesh = id }

\* No mesh has more instances than the pools and the staging arrays hold.
WithinCapacity ==
    \A k \in 1 .. Len(m_meshes) :
        /\ Len(LiveInstances(k)) <= m_instancePoolSize
        /\ Len(LiveInstances(k)) <= staging.materialIDs

\* An instance of a recorded mesh uses a material the table built at load
\* does not hold.
UnknownMaterial ==
    \E k \in 1 .. Len(m_meshes) : \E i \in 1 .. Len(LiveInstances(k)) :
        Throws(m_materialIDs,
               getInstanceById(m_scene, LiveInstances(k)[i]).material)

\* C1: a frame in which an instance's material id is absent from the table
\* built at load is not aborted: no exception escapes windowViewRender and
\* every mesh that has instances is still drawn.
C1_MaterialFallback ==
    (Rendered /\ WithinCapacity /\ UnknownMaterial) =>
        /\ outcome = "completed"
        /\ \A k \in 1 .. Len(m_meshes) :
              Len(LiveInstances(k)) > 0 => DrawsOf(m_meshes[k].id) # {}

\* C2: in every frame, a recorded mesh without instances is not drawn, and
\* a recorded mesh with n > 0 instances is drawn by exactly one instanced
\* draw with its recorded elementCount, index byte offset and base vertex
\* and with instance count n.
C2_OneDrawPerMesh ==
    Rendered =>
        \A k \in 1 .. Len(m_meshes) :
            LET n     == Len(LiveInstances(k))
                draws == DrawsOf(m_meshes[k].id)
            IN  /\ n = 0 => draws = {}
                /\ n > 0 =>
                     /\ Cardinality(draws) = 1
                     /\ \A p \in draws :
                          /\ gl[p].count = m_meshes[k].elementCount
                          /\ gl[p].indices = m_meshes[k].elementsOffset
                          /\ gl[p].baseVertex = m_meshes[k].verticesIndex
                          /\ gl[p].instances = n

\* C3: when a mesh is drawn with n instances, slot i of the transform pool
\* holds the model matrix of the i-th instance the scene returned for the
\* mesh and projection * view * model, and slot i of the material-index
\* pool holds the table offset of that instance's material, in the scene's
\* order.
C3_SlotsHoldInstances ==
    Rendered =>
        \A p \in 1 .. Len(gl) :
            gl[p].op = "draw" =>
                LET instances == getInstancesByMeshId(m_scene, gl[p].mesh)
                IN  \A i \in 1 .. gl[p].instances :
                      LET instance == getInstanceById(m_scene, instances[i])
                      IN  /\ i \in DOMAIN gl[p].transforms
                          /\ gl[p].transforms[i] =
                                StagedTransform(ProjectionView, instance)
                          /\ i \in DOMAIN gl[p].materialIDs
                          /\ gl[p].materialIDs[i] =
                                m_materialIDs[instance.material]

\* The uploads to a pool for a mesh, by position in the frame.
IsUpload(p, target, id) ==
    /\ gl[p].op = "subdata"
    /\ gl[p].target = target
    /\ gl[p].mesh = id

\* C4: in every frame the write of the scene and lighting block is
\* submitted before the first draw, and the transform-pool and
\* material-index-pool writes for a drawn mesh are submitted after the
\* draw of the mesh before it and before the mesh's own draw.
C4_WritesBeforeDraws ==
    Rendered =>
        /\ Len(gl) >= 1
        /\ gl[1].op = "subdata"
        /\ gl[1].target = "uniform"
        /\ \A p \in 1 .. Len(gl) :
              gl[p].op = "draw" =>
                  \E t, m \in 2 .. p - 1 :
                      /\ IsUpload(t, "transforms", gl[p].mesh)
                      /\ IsUpload(m, "materialIDs", gl[p].mesh)
                      /\ \A q \in 1 .. p - 1 :
                            gl[q].op = "draw" => q < t /\ q < m

\* A completed frame that draws two meshes one after the other.
C4_Witness ==
    /\ Rendered
    /\ outcome = "completed"
    /\ DrawsOf(1) # {}
    /\ DrawsOf(2) # {}
    /\ \A p \in DrawsOf(1) : \A q \in DrawsOf(2) : p < q

\* C5: in every frame, the number of pool slots written for a mesh is at
\* most the pool capacity computed at load.
C5_WrittenWithinCapacity ==
    Rendered =>
        \A p \in 1 .. Len(gl) :
            gl[p].op = "fill" => gl[p].slots <= m_instancePoolSize

\* C6: a frame in which a mesh has more instances than the pool capacity
\* computed at load does not complete as if nothing had happened: it is
\* stopped, or the mesh is drawn with at most as many instances as the
\* capacity and no slot at or beyond the capacity is written.
C6_OverflowSurfaced ==
    (Rendered /\ \E k \in 1 .. Len(m_meshes) :
                    Len(LiveInstances(k)) > m_instancePoolSize) =>
        \/ outcome # "completed"
        \/ \A p \in 1 .. Len(gl) :
              /\ gl[p].op = "draw" => gl[p].instances <= m_instancePoolSize
              /\ gl[p].op = "fill" => ~gl[p].overrun

\* C10: for a mesh drawn with n instances, the uploads before the draw
\* rewrite bytes [0, 128 * n) of the transform pool and the first n indices
\* of the material-index pool, and the draw reads no slot the uploads did
\* not rewrite.
C10_UploadFirstSlots ==
    Rendered =>
        \A p \in 1 .. Len(gl) :
            gl[p].op = "draw" =>
                /\ p > 2
                /\ IsUpload(p - 2, "transforms", gl[p].mesh)
                /\ gl[p - 2].offset = 0
                /\ gl[p - 2].size = 128 * gl[p].instances
                /\ gl[p - 2].accepted
                /\ IsUpload(p - 1, "materialIDs", gl[p].mesh)
                /\ gl[p - 1].offset = 0
                /\ gl[p - 1].size = 4 * gl[p].instances
                /\ gl[p - 1].accepted

(***************************************************************************)
(* Properties of the scene and lighting block.  After windowViewRender the *)
(* UBO holds the UniformData of the frame.                                 *)
(***************************************************************************)
Block == m_uniformUBO.data[1]

\* The number of scene lights that fit the light array.
KeptLights == Min(Len(lights), MAX_LIGHTS)

\* C11: with k scene lights the uploaded block has light count
\* min(k, MAX_LIGHTS), one more if the wireframe light is active and fits;
\* slot i below min(k, MAX_LIGHTS) is filled from the i-th scene light, and
\* the light array keeps its MAX_LIGHTS slots.
C11_LightClamp ==
    Rendered =>
        /\ Block.m_numLights =
              IF m_wireframeMode /\ Len(lights) < MAX_LIGHTS
              THEN KeptLights + 1 ELSE KeptLights
        /\ Block.m_numLights <= MAX_LIGHTS
        /\ DOMAIN Block.m_lights = 1 .. MAX_LIGHTS
        /\ \A i \in 1 .. KeptLights :
              /\ Block.m_lights[i].position = lights[i].position
              /\ Block.m_lights[i].direction = lights[i].direction

C11_Witness ==
    /\ Rendered
    /\ Len(lights) = MAX_LIGHTS + 2
    /\ Block.m_numLights = MAX_LIGHTS
    /\ Block.m_lights[MAX_LIGHTS].position = lights[MAX_LIGHTS].position

C13_TypeTagKept ==
    Rendered =>
        \A i \in 1 .. KeptLights : Block.m_lights[i].type = lights[i].type

\* C14: for every scene light copied into the block, the position, the
\* direction, the colour, the cone angle, the concentration and the three
\* attenuation coefficients of the record equal those of the scene light.
C14_FieldsCopied ==
    Rendered =>
        \A i \in 1 .. KeptLights :
            /\ Block.m_lights[i].position = lights[i].position
            /\ Block.m_lights[i].direction = lights[i].direction
            /\ Block.m_lights[i].colour = lights[i].colour
            /\ Block.m_lights[i].coneAngle = lights[i].coneAngle
            /\ Block.m_lights[i].concentration = lights[i].concentration
            /\ Block.m_lights[i].aConstant = lights[i].aConstant
            /\ Block.m_lights[i].aLinear = lights[i].aLinear
            /\ Block.m_lights[i].aQuadratic = lights[i].aQuadratic

\* The glBindBufferRange of a block in the frame.
RangeOf(target) ==
    gl[CHOOSE p \in 1 .. Len(gl) :
          gl[p].op = "bindrange" /\ gl[p].target = target]

\* C19: the scene range of the block starts at byte 0, the lighting range
\* at a multiple of 256 bytes; the two ranges are disjoint and cover the
\* block; the light count is the first member of the lighting range and
\* the light array starts 16 bytes after it; the size of a light record is
\* a multiple of 16 and its position, direction and colour lie at
\* multiples of 16.
C19_BlockLayout ==
    Rendered =>
        /\ RangeOf("scene").offset = 0
        /\ RangeOf("lighting").offset % 256 = 0
        /\ RangeOf("scene").offset + RangeOf("scene").size
              = RangeOf("lighting").offset
        /\ RangeOf("lighting").offset + RangeOf("lighting").size
              = m_uniformUBO.size
        /\ OffsetOf(UniformDataFields, "m_numLights")
              = RangeOf("lighting").offset
        /\ OffsetOf(UniformDataFields, "m_lights")
              = RangeOf("lighting").offset + 16
        /\ Sizeof(LightFields) % 16 = 0
        /\ OffsetOf(LightFields, "position") % 16 = 0
        /\ OffsetOf(LightFields, "direction") % 16 = 0
        /\ OffsetOf(LightFields, "colour") % 16 = 0

C19_Witness ==
    /\ Rendered
    /\ RangeOf("lighting").offset = 256
    /\ RangeOf("lighting").size = 1296
    /\ m_uniformUBO.size = 1552

(***************************************************************************)
(* Properties of the material table, of the shader program and of          *)
(* reloading.                                                              *)
(***************************************************************************)
\* The image of a material is named and decodes.
ImageLoads(id) ==
    ambientMaps[id] # NoAmbientMap /\ ambientMaps[id] \in pngFiles

C16_TexturesDeduplicated ==
    Loaded =>
        LET images == m_textureArray.images
        IN  /\ \A i, j \in 1 .. Len(images) :
                  i # j => images[i] # images[j]
            /\ images # << >> =>
                  m_textureArray.layers =
                      Cardinality({ images[i] : i \in 1 .. Len(images) })

\* C17: a frame changes neither the recorded meshes, nor the vertex and
\* index buffers, nor the material table, nor the map from material ids to
\* table offsets, whether or not an instance uses an unknown material.
C17_RenderReadsOnly ==
    [][handler' = "windowViewRender" =>
          UNCHANGED << m_meshes, m_vertexVBO, m_elementVBO, m_materials,
                       m_textureArray, m_materialIDs >>]_vars

\* A frame that looked up a material the map does not hold.
C17_Witness ==
    /\ Rendered
    /\ outcome = "exception"
    /\ m_meshes # << >>
    /\ UnknownMaterial

\* C18: when the shader program fails to build during load, startup is
\* aborted: no later load step runs and no frame is rendered with the
\* failed program.
C18_BuildFailureAborts ==
    m_program = "failed" =>
        /\ m_meshes = << >>
        /\ m_materials = DeletedBuffer
        /\ ~Rendered

\* C18, as the code has it: when the shader program fails to build during
\* load, the link log is written to std::cerr and the load goes on: the
\* program stays unlinked, every later load step runs and the view is
\* started, so that frames are rendered with the unlinked program.
C18_BuildFailureReported ==
    /\ (Loaded /\ shaders = "invalid") =>
          /\ m_program = "failed"
          /\ \E p \in 1 .. Len(gl) :
                gl[p].op = "message" /\ gl[p].target = "cerr"
          /\ phase = "started"
          /\ Len(m_meshes) = Len(meshes)
          /\ Len(m_materials.data) = Len(m_scene.materials)
          /\ m_uniformUBO.size = Sizeof(UniformDataFields)
    /\ (Rendered /\ shaders = "invalid") => m_program = "failed"

\* A frame rendered after a failed build.
C18_Witness ==
    /\ Rendered
    /\ outcome = "completed"
    /\ shaders = "invalid"
    /\ m_program = "failed"
    /\ DrawsOf(1) # {}

C23_FailedShaderNotAttached ==
    Loaded =>
        \A p \in 1 .. Len(gl) :
            /\ (gl[p].op = "attach") => gl[p].compiled
            /\ (gl[p].op = "compile" /\ ~gl[p].accepted) =>
                  \A q \in 1 .. Len(gl) :
                      gl[q].op = "attach" => gl[q].mesh # gl[p].mesh

\* C24: m_wireframeType stays within point, spot and directional, and the
\* wireframe light of a frame has the light type m_wireframeType selects.
C24_WireframeTypeSelects ==
    /\ m_wireframeType \in { Point, Spot, Directional }
    /\ (Rendered /\ m_wireframeMode /\ Len(lights) < MAX_LIGHTS) =>
          Block.m_lights[Len(lights) + 1].type = m_wireframeType

\* C26: in every frame the static staging vectors of windowViewRender hold
\* at least m_instancePoolSize material indices and twice as many matrices.
C26_StagingCoversPool ==
    Rendered =>
        /\ staging.materialIDs >= m_instancePoolSize
        /\ staging.matrices >= MatricesPerSlot * m_instancePoolSize

\* C27: no glDelete call is made on a name whose object was deleted before,
\* and a destroyed view holds no live GL object and no Mesh record.
C27_ReleasedOnce ==
    /\ \A p \in 1 .. Len(gl) :
          gl[p].op = "delete" => gl[p].name # "deleted"
    /\ phase = "destroyed" =>
          /\ m_meshes = << >>
          /\ \A o \in GLObjects : glNames[o] # "live"

(***************************************************************************)
(* The material index the fragment stage fetches for an instance.          *)
(***************************************************************************)
\* glTexBuffer (GL_TEXTURE_BUFFER, GL_RGBA32I, m_poolMaterialIDs.vbo): a
\* texel is four ints, and the buffer texture has as many texels as fit
\* the buffer whole.
ComponentsPerTexel == 4
TexelSize == ComponentsPerTexel * SizeofMaterialID

TexelCount(buffer) == buffer.size \div TexelSize

\* obtainMaterialID of sponza_fs.glsl: component instanceID % 4 of texel
\* instanceID / 4, as the values the fetch may yield; a fetch outside the
\* texel array is undefined.
obtainMaterialID(buffer, ids, instanceID) ==
    LET texel     == instanceID \div ComponentsPerTexel
        component == instanceID % ComponentsPerTexel
        slot      == texel * ComponentsPerTexel + component + 1
    IN  IF texel < TexelCount(buffer)
        THEN { ids[slot] }
        ELSE { Garbage, 0 } \cup
             (IF slot \in DOMAIN ids THEN { ids[slot] } ELSE { })

\* C25: for every instance i of a draw of at most m_instancePoolSize
\* instances, the texel the fragment stage fetches lies inside the bytes
\* of the material-index pool and the component fetched is the offset
\* written at slot i.
C25_FetchWithinPool ==
    Rendered =>
        \A p \in 1 .. Len(gl) :
            (gl[p].op = "draw" /\ gl[p].instances <= m_instancePoolSize) =>
                \A i \in 0 .. gl[p].instances - 1 :
                    /\ (i \div ComponentsPerTexel + 1) * TexelSize
                          <= m_poolMaterialIDs.size
                    /\ obtainMaterialID(m_poolMaterialIDs,
                                        gl[p].materialIDs, i)
                          = { m_materialIDs[
                                getInstanceById(m_scene,
                                   getInstancesByMeshId(m_scene,
                                      gl[p].mesh)[i + 1]).material] }

(***************************************************************************)
(* Properties of UniformData alone.                                        *)
(***************************************************************************)
\* C29: after any calls of setLight and setLightCount with any integer
\* arguments the stored light count is within 0 .. MAX_LIGHTS, the light
\* array has its MAX_LIGHTS elements and no call wrote outside it.
C29_LightStoreSafe ==
    /\ uniformData.m_numLights \in 0 .. MAX_LIGHTS
    /\ DOMAIN uniformData.m_lights = 1 .. MAX_LIGHTS
    /\ ~outside

\* A call of setLight with the index MAX_LIGHTS after the last slot was set
\* and the count was raised to MAX_LIGHTS.
C29_Witness ==
    /\ handler = "setLight"
    /\ gl[1].argument = MAX_LIGHTS
    /\ uniformData.m_numLights = MAX_LIGHTS
    /\ uniformData.m_lights[MAX_LIGHTS] # DefaultLight

\* C30: after a move assignment the target holds the projection, the view,
\* the camera position, the ambience, the MAX_LIGHTS lights and the light
\* count that the source held.
C30_MoveKeepsAll ==
    [][handler' = "UniformData::operator=" =>
          /\ uniformData'.m_projection = moved.m_projection
          /\ uniformData'.m_view = moved.m_view
          /\ uniformData'.m_cameraPosition = moved.m_cameraPosition
          /\ uniformData'.m_ambience = moved.m_ambience
          /\ uniformData'.m_lights = moved.m_lights
          /\ uniformData'.m_numLights = moved.m_numLights]_vars

(***************************************************************************)
(* Properties of the move assignment of MyView.                            *)
(***************************************************************************)
\* C28: after view `move` is move-assigned to view `this`, `this` holds
\* every resource `move` held: the GL names, those of the material table
\* and of its texture among them, the scene, the meshes, the map from
\* material ids to offsets and the wireframe flags; `move` holds none.
C28_MoveTakesAll ==
    [][handler' = "MyView::operator=" =>
          /\ views'.this = views.move
          /\ views'.move.m_program = 0
          /\ views'.move.m_sceneVAO = 0
          /\ views'.move.m_vertexVBO = 0
          /\ views'.move.m_elementVBO = 0
          /\ views'.move.m_uniformUBO = 0
          /\ views'.move.m_textureArray = 0
          /\ views'.move.m_materials = [vbo |-> 0, tbo |-> 0]
          /\ views'.move.m_poolTransforms = 0
          /\ views'.move.m_poolMaterialIDs = [vbo |-> 0, tbo |-> 0]
          /\ views'.move.m_scene = << >>
          /\ views'.move.m_meshes = << >>
          /\ DOMAIN views'.move.m_materialIDs = { }]_vars

(***************************************************************************)
(* Properties of the fragment shader.                                      *)
(***************************************************************************)
\* C21: for a spot light whose cone angle the scene gave in degrees,
\* spotLightConeAttenuation is 0 for a direction to the surface that lies
\* at half the cone angle from the direction of the light, and above 0 for
\* a direction that lies nearer to it.
C21_ConeBoundary ==
    (shaded.op = "spotLightConeAttenuation" /\ fragment.light.type = Spot) =>
        /\ 2 * fragment.angle = fragment.light.coneAngle => shaded.value = 0
        /\ 2 * fragment.angle < fragment.light.coneAngle => shaded.value > 0

\* C22: processLight gives no specular lighting for a material of negative
\* shininess, gives no lighting for a light at the very position of the
\* fragment, and never gives a value that is not a number.
C22_MalformedInputsContributeZero ==
    shaded.op = "processLight" =>
        /\ fragment.material.shininess < 0 => shaded.specularLighting = 0
        /\ fragment.distance = 0 => shaded.value = 0
        /\ shaded.value # NaN

====
